---- MODULE Spec2Model ----
(***************************************************************************)
(* State-machine model of the dynamic UI renderer (AppRenderer.tsx), the   *)
(* validation function it uses, the action executor it awaits, and the     *)
(* host App component: the part that mounts the renderer and hands it the  *)
(* application description, the chat that requests descriptions, and the   *)
(* sign-in gate with the authService module behind it.                     *)
(*                                                                         *)
(* Representation of JavaScript values:                                    *)
(*   - a text typed into an input is a sequence of characters, so that     *)
(*     String.prototype.trim can be computed;                              *)
(*   - `null` / `undefined` is the empty tuple Null; an optional value v   *)
(*     that is present is either a non-empty tuple (validation messages)   *)
(*     or the one-element tuple <<v>> (executor error messages);           *)
(*   - a Record<string, T> is a function whose DOMAIN is the set of keys   *)
(*     that have been written;                                             *)
(*   - executor results and error messages are TLA+ strings.               *)
(***************************************************************************)
EXTENDS Integers, Sequences, FiniteSets, Bags, TLC

VARIABLES
    appConfig,       \* App state: the current description (a name) or NoConfig
    activeView,      \* App state: "preview" | "flutter"
    inputValues,     \* AppRenderer state: input id -> text
    outputValues,    \* AppRenderer state: button id -> last result
    executingState,  \* AppRenderer state: button id -> [loading, error]
    errors,          \* AppRenderer state: input id -> message or Null
    pending,         \* bag of the handleButtonClick calls suspended at their await
    succeeded,       \* history: buttons of the mounted renderer with a committed success
    lastOp,          \* history: the operation that produced the current state
    vValue,          \* validateInput harness: the value argument
    vRules,          \* validateInput harness: the validation argument (optional)
    vResult,         \* validateInput harness: the returned value
    vDone,           \* validateInput harness: whether the call has returned
    recovery,        \* history: how far a refused Invoke has been recovered from
    authState,       \* App state: "loading" | "authenticated" | "unauthenticated"
    user,            \* App state: the signed-in user or Null
    currentUser,     \* authService module: the session's user or Null
    isInitialized,   \* authService module: initializeGoogleSignIn has run
    listeners,       \* authService module: the subscribed listeners
    deferred,        \* callbacks queued by onAuthStateChanged, not yet run
    googleLoaded,    \* whether window.google is defined
    storedToken,     \* sessionStorage entry google_id_token, or Null
    authEffect,      \* App mount effect: "unrun" | "waiting" | "subscribed" | "unsubscribed"
    messages,        \* App state: the chat, a sequence of [role, content]
    currentUserInput,\* App state: the text in the chat box
    error,           \* App state: the generation error shown, or Null
    isLoading,       \* App state
    requests,        \* bag of the handleSendMessage calls suspended at their await
    xAction,         \* executeAppAction harness: the action argument
    xInputs,         \* executeAppAction harness: the inputs argument
    xRun,            \* executeAppAction harness: what the call did, or Null
    xDone,           \* executeAppAction harness: whether the call has settled
    flutterCode,     \* App state: the generated source code, or Null
    codeError,       \* App state: the code generation error shown, or Null
    deploymentError, \* App state: the deployment error shown, or Null
    isGeneratingCode,\* App state
    codeJobs,        \* bag of the generateCode calls suspended at their await
    isDeploying,     \* App state
    deploymentResult,\* App state: the last deployment's result, or Null
    isDeployModalOpen,\* App state
    deployments      \* bag of the handleDeploy calls suspended at their await

rvars == <<appConfig, activeView, inputValues, outputValues, executingState,
           errors, pending, succeeded, lastOp>>
vvars == <<vValue, vRules, vResult, vDone>>
gvars == <<recovery>>
\* authentication: App's auth state and the authService module
svars == <<authState, user, currentUser, isInitialized, listeners, deferred,
           googleLoaded, storedToken, authEffect>>
\* the chat state that Start Over resets, and the rest of the chat state
cvars == <<messages, currentUserInput, error>>
lvars == <<isLoading, requests>>
xvars == <<xAction, xInputs, xRun, xDone>>
\* the variables of the two function harnesses and the history of a recovery
hvars == <<vvars, gvars, xvars>>
\* code generation and deployment: what Start Over resets, and the rest
kvars == <<flutterCode, codeError, deploymentError>>
dvars == <<isGeneratingCode, codeJobs, isDeploying, deploymentResult,
           isDeployModalOpen, deployments>>
\* what the renderer specification leaves alone
nonRenderer == <<hvars, svars, cvars, lvars, kvars, dvars>>
vars == <<rvars, hvars, svars, cvars, lvars, kvars, dvars>>

----------------------------------------------------------------------------
(* Bounds of the model *)

\* longest text given to validateInput in the validation harness
MaxLen == 2
\* largest minLength / maxLength in the rule sets of the validation harness
MaxRule == 3
\* most executor calls outstanding at once (abandoned ones included)
MaxPending == 2
\* most description requests outstanding at once
MaxRequests == 2
\* longest chat: a send is refused by the model when the chat could outgrow it
MaxMessages == 4
\* most source-code generations outstanding at once
MaxCodeJobs == 2
\* most initial callbacks of onAuthStateChanged queued at once
MaxDeferred == 4

----------------------------------------------------------------------------
(* JavaScript values *)

Null == <<>>
Empty == <<>>

Put(f, k, v) == [x \in (DOMAIN f) \cup {k} |-> IF x = k THEN v ELSE f[x]]

\* f[k] || ''  for a record of texts
GetText(f, k) == IF k \in DOMAIN f /\ f[k] # <<>> THEN f[k] ELSE <<>>

Chars == {" ", "a"}

RECURSIVE TrimStart(_)
TrimStart(s) == IF s # <<>> /\ Head(s) = " " THEN TrimStart(Tail(s)) ELSE s

RECURSIVE TrimEnd(_)
TrimEnd(s) ==
    IF s # <<>> /\ s[Len(s)] = " " THEN TrimEnd(SubSeq(s, 1, Len(s) - 1)) ELSE s

Trim(s) == TrimEnd(TrimStart(s))

----------------------------------------------------------------------------
(* Validation: validateInput, AppRenderer.tsx lines 12-28 *)

RequiredMessage == <<"This field is required.">>
MinLengthMessage(n) == <<"Must be at least ", n, " characters long.">>
MaxLengthMessage(n) == <<"Cannot be more than ", n, " characters long.">>

\* `rules.f` used as a condition: the field is present and its value is truthy
TruthyFlag(rules, f) == f \in DOMAIN rules /\ rules[f] = TRUE
TruthyNumber(rules, f) == f \in DOMAIN rules /\ rules[f] # 0

\* the checks in another order: maxLength before minLength
validateInput_MaxBeforeMin(value, validation) ==
    IF validation = Null THEN Null
    ELSE LET rules == validation[1]
             trimmedValue == Trim(value)
         IN  IF TruthyFlag(rules, "required") /\ trimmedValue = <<>>
               THEN RequiredMessage
             ELSE IF TruthyNumber(rules, "maxLength")
                     /\ Len(trimmedValue) > rules.maxLength
               THEN MaxLengthMessage(rules.maxLength)
             ELSE IF TruthyNumber(rules, "minLength")
                     /\ Len(trimmedValue) < rules.minLength
               THEN MinLengthMessage(rules.minLength)
             ELSE Null

validateInput(value, validation) ==
    IF validation = Null THEN Null
    ELSE LET rules == validation[1]
             trimmedValue == Trim(value)
         IN  IF TruthyFlag(rules, "required") /\ trimmedValue = <<>>
               THEN RequiredMessage
             ELSE IF TruthyNumber(rules, "minLength")
                     /\ Len(trimmedValue) < rules.minLength
               THEN MinLengthMessage(rules.minLength)
             ELSE IF TruthyNumber(rules, "maxLength")
                     /\ Len(trimmedValue) > rules.maxLength
               THEN MaxLengthMessage(rules.maxLength)
             ELSE Null

----------------------------------------------------------------------------
(* Validation harness: validateInput called on its own *)

RECURSIVE StringsOfLen(_)
StringsOfLen(n) ==
    IF n = 0 THEN {<<>>}
    ELSE {Append(s, c) : s \in StringsOfLen(n - 1), c \in Chars}

Strings == UNION {StringsOfLen(n) : n \in 0..MaxLen}

OptFlag == {<<>>, <<TRUE>>, <<FALSE>>}
OptNumber == {<<>>} \cup {<<n>> : n \in 0..MaxRule}

Field(name, opt) == IF opt = <<>> THEN Empty ELSE name :> opt[1]

\* every InputValidation object: each of the three fields present or not
RuleSets ==
    {Field("required", r) @@ Field("minLength", mn) @@ Field("maxLength", mx) :
        r \in OptFlag, mn \in OptNumber, mx \in OptNumber}

\* the `validation?` argument: undefined, or a rule set
Validations == {Null} \cup {<<rules>> : rules \in RuleSets}

ValidateInit ==
    /\ vValue \in Strings
    /\ vRules \in Validations
    /\ vResult = Null
    /\ vDone = FALSE

ValidateIdle ==
    /\ vValue = <<>>
    /\ vRules = Null
    /\ vResult = Null
    /\ vDone = FALSE

CallValidate ==
    /\ ~vDone
    /\ vResult' = validateInput(vValue, vRules)
    /\ vDone' = TRUE
    /\ UNCHANGED <<vValue, vRules>>

----------------------------------------------------------------------------
(* Application descriptions: AppConfig and the AppComponent union *)

NoConfig == "null"

ConfigA ==
    << [id |-> "title", type |-> "TITLE", content |-> "Story maker"],
       [id |-> "in1", type |-> "INPUT_TEXT", label |-> "Topic",
        validation |-> [required |-> TRUE, maxLength |-> 2]],
       [id |-> "in2", type |-> "INPUT_TEXT", label |-> "Style",
        validation |-> [minLength |-> 2]],
       [id |-> "b1", type |-> "BUTTON", label |-> "Write",
        action |-> "GENERATE_TEXT", triggers |-> <<"in1", "in2">>],
       [id |-> "b2", type |-> "BUTTON", label |-> "Draw",
        action |-> "GENERATE_IMAGE", triggers |-> <<"in2">>],
       [id |-> "o1", type |-> "OUTPUT_TEXT", displaysFor |-> "b1"],
       [id |-> "o2", type |-> "OUTPUT_IMAGE", displaysFor |-> "b2"],
       [id |-> "o3", type |-> "OUTPUT_TEXT", displaysFor |-> "b1"] >>

\* a refinement of ConfigA: ids reused, rules changed, components removed,
\* and two references left behind that name removed components (in2, b2)
ConfigB ==
    << [id |-> "title", type |-> "TITLE", content |-> "Story maker 2"],
       [id |-> "in1", type |-> "INPUT_TEXT", label |-> "Topic"],
       [id |-> "b1", type |-> "BUTTON", label |-> "Write",
        action |-> "GENERATE_TEXT", triggers |-> <<"in1", "in2">>],
       [id |-> "o1", type |-> "OUTPUT_TEXT", displaysFor |-> "b1"],
       [id |-> "o4", type |-> "OUTPUT_IMAGE", displaysFor |-> "b2"] >>

\* one required input, one button, one output bound to the button
ConfigT ==
    << [id |-> "topic_input", type |-> "INPUT_TEXT", label |-> "Topic",
        validation |-> [required |-> TRUE, maxLength |-> 20]],
       [id |-> "go_button", type |-> "BUTTON", label |-> "Go",
        action |-> "GENERATE_TEXT", triggers |-> <<"topic_input">>],
       [id |-> "result_output", type |-> "OUTPUT_TEXT",
        displaysFor |-> "go_button"] >>

ConfigNames == {"A", "B"}

Components(cfg) ==
    IF cfg = "A" THEN ConfigA
    ELSE IF cfg = "B" THEN ConfigB
    ELSE IF cfg = "T" THEN ConfigT
    ELSE <<>>

OfType(cfg, t) == SelectSeq(Components(cfg), LAMBDA c : c.type = t)

Ids(seq) == {seq[i].id : i \in DOMAIN seq}

\* useMemo: the INPUT_TEXT components of the description
textInputs(cfg) == OfType(cfg, "INPUT_TEXT")

\* textInputs.find(c => c.id === id): whether one is found, and the first found
FindInput(cfg, id) == SelectSeq(textInputs(cfg), LAMBDA c : c.id = id)
HasInput(cfg, id) == FindInput(cfg, id) # <<>>
InputOf(cfg, id) == Head(FindInput(cfg, id))

\* component.validation, an optional field
ValidationOf(c) == IF "validation" \in DOMAIN c THEN <<c.validation>> ELSE Null

Buttons(cfg) == OfType(cfg, "BUTTON")
ButtonOf(cfg, id) == Head(SelectSeq(Buttons(cfg), LAMBDA c : c.id = id))

Outputs(cfg) ==
    SelectSeq(Components(cfg),
              LAMBDA c : c.type \in {"OUTPUT_TEXT", "OUTPUT_IMAGE"})

\* texts a user types into a rendered textarea
TypedValues == { <<" ">>, <<"a", "a">>, <<"a", "a", "a">> }

----------------------------------------------------------------------------
(* Action executor: executeAppAction, unnamed/part_002 lines 211-241 *)

TextResults == {"", "Cats are great"}
ImageResults == {"data:image/jpeg;base64,AAAA"}
DownstreamErrors == {"Network error"}

\* the strings a call can resolve with
Resolutions(action) ==
    IF action = "GENERATE_TEXT" THEN TextResults
    ELSE IF action = "GENERATE_IMAGE" THEN ImageResults
    ELSE {}

\* `Unsupported action: ${action}`
UnsupportedMessage(action) == <<"Unsupported action: ", action>>

\* the messages a call can reject with
Rejections(action) ==
    IF action = "GENERATE_TEXT" THEN DownstreamErrors
    ELSE IF action = "GENERATE_IMAGE"
      THEN {"Image generation failed."}
    ELSE {UnsupportedMessage(action)}

\* what one call did: the model calls it made downstream, in order, and the
\* value it resolved or the message it rejected with
Runs(downstream, action) ==
    {[downstream |-> downstream, outcome |-> "resolved", value |-> r] :
        r \in Resolutions(action)}
    \cup {[downstream |-> downstream, outcome |-> "rejected", value |-> m] :
        m \in Rejections(action)}

\* whatever is not an image request is sent to the text model
executeAppAction_ElseIsText(action, inputs) ==
    IF action = "GENERATE_IMAGE"
      THEN Runs(<<[api |-> "generateImages", inputs |-> inputs]>>, action)
      ELSE Runs(<<[api |-> "generateContent", inputs |-> inputs]>>, "GENERATE_TEXT")

\* executeAppAction, lines 211-241: every way a call can go
executeAppAction(action, inputs) ==
    IF action = "GENERATE_TEXT"
      THEN Runs(<<[api |-> "generateContent", inputs |-> inputs]>>, action)
    ELSE IF action = "GENERATE_IMAGE"
      THEN Runs(<<[api |-> "generateImages", inputs |-> inputs]>>, action)
    ELSE Runs(<<>>, action)

\* the action kinds of ActionType, and values that are none of them
ActionKinds == {"GENERATE_TEXT", "GENERATE_IMAGE"}
OtherKinds == {"GENERATE_VIDEO", "generate_text", ""}

\* the bundles over the ids in1 and in2
Bundles ==
    UNION {[keys -> TypedValues \cup {<<>>}] : keys \in SUBSET {"in1", "in2"}}

ExecuteInit ==
    /\ xAction \in ActionKinds \cup OtherKinds
    /\ xInputs \in Bundles
    /\ xRun = Null
    /\ xDone = FALSE

ExecuteIdle ==
    /\ xAction = ""
    /\ xInputs = Empty
    /\ xRun = Null
    /\ xDone = FALSE

CallExecute ==
    /\ ~xDone
    /\ xRun' \in executeAppAction(xAction, xInputs)
    /\ xDone' = TRUE
    /\ UNCHANGED <<xAction, xInputs>>

----------------------------------------------------------------------------
(* The renderer: AppRenderer.tsx *)

\* App renders <AppRenderer config={appConfig}/> only in the main layout,
\* which only a signed-in user is shown, and only in the preview tab; the
\* element carries no key
Mounted ==
    /\ authState = "authenticated"
    /\ appConfig # NoConfig
    /\ activeView = "preview"

\* executingState[id]?.loading and executingState[id]?.error
Loading(es, id) ==
    id \in DOMAIN es /\ "loading" \in DOMAIN es[id] /\ es[id].loading
ErrorOf(es, id) ==
    IF id \in DOMAIN es /\ "error" \in DOMAIN es[id] THEN es[id].error ELSE Null

\* !!errors[id]
HasError(errs, id) == id \in DOMAIN errs /\ errs[id] # Null

\* a suspended handleButtonClick: what its continuation after the await reads
\* (buttonId), the action its executor call was given, and whether the
\* renderer that started it is still mounted and still shows the description
\* it was started under
NoCall ==
    [button |-> "", action |-> "", live |-> FALSE, stale |-> FALSE]

NoInputs == Empty

\* the operation that was last performed, with the arguments it passed on
OpWith(name, id, arg, call, inputs) ==
    [op |-> name, id |-> id, arg |-> arg, call |-> call, inputs |-> inputs]

Op(name, id, arg, call) == OpWith(name, id, arg, call, NoInputs)

\* handleInputChange never touches errors
ErrorsOnChange_Skipped(cfg, errs, id, value) == errs

\* handleInputChange, lines 45-49: the errors after the change
ErrorsOnChange(cfg, errs, id, value) ==
    IF HasInput(cfg, id)
      THEN Put(errs, id, validateInput(value, ValidationOf(InputOf(cfg, id))))
      ELSE errs

handleInputChange(id, value) ==
    /\ Mounted
    /\ id \in Ids(textInputs(appConfig))
    /\ inputValues' = Put(inputValues, id, value)
    /\ errors' = ErrorsOnChange(appConfig, errors, id, value)
    /\ lastOp' = Op("SetInputValue", id, <<value>>, NoCall)
    /\ UNCHANGED <<appConfig, activeView, outputValues, executingState,
                   pending, succeeded>>

\* the loop leaves at the first failing trigger
RECURSIVE ValidateTriggers_StopAtFirst(_, _, _)
ValidateTriggers_StopAtFirst(cfg, triggers, acc) ==
    IF triggers = <<>> \/ acc.hasErrors THEN acc
    ELSE LET triggerId == Head(triggers)
             errorMessage ==
                 IF HasInput(cfg, triggerId)
                   THEN validateInput(GetText(inputValues, triggerId),
                                      ValidationOf(InputOf(cfg, triggerId)))
                   ELSE Null
         IN  ValidateTriggers_StopAtFirst(cfg, Tail(triggers),
                 IF errorMessage # Null
                   THEN [newErrors |-> Put(acc.newErrors, triggerId, errorMessage),
                         hasErrors |-> TRUE]
                   ELSE acc)

\* handleButtonClick, lines 56-66: the loop over the triggers
RECURSIVE ValidateTriggers(_, _, _)
ValidateTriggers(cfg, triggers, acc) ==
    IF triggers = <<>> THEN acc
    ELSE LET triggerId == Head(triggers)
             errorMessage ==
                 IF HasInput(cfg, triggerId)
                   THEN validateInput(GetText(inputValues, triggerId),
                                      ValidationOf(InputOf(cfg, triggerId)))
                   ELSE Null
         IN  ValidateTriggers(cfg, Tail(triggers),
                 IF errorMessage # Null
                   THEN [newErrors |-> Put(acc.newErrors, triggerId, errorMessage),
                         hasErrors |-> TRUE]
                   ELSE acc)

\* the bundle carries the trimmed values that were validated
inputsToExecute_Trimmed(triggers) ==
    [t \in {triggers[i] : i \in DOMAIN triggers} |-> Trim(GetText(inputValues, t))]

\* handleButtonClick, lines 72-75: the bundle sent to the executor
inputsToExecute(triggers) ==
    [t \in {triggers[i] : i \in DOMAIN triggers} |-> GetText(inputValues, t)]

\* the entry keeps the error recorded by the previous execution
LaunchState_KeepError(es, buttonId) ==
    [loading |-> TRUE, error |-> ErrorOf(es, buttonId)]

\* handleButtonClick, line 70: the entry written when the execution starts
LaunchState(es, buttonId) == [loading |-> TRUE, error |-> Null]

\* any recorded input error disables every button
ButtonDisabled_AnyError(component) ==
    \/ Loading(executingState, component.id)
    \/ \E id \in DOMAIN errors : HasError(errors, id)

\* only the input errors disable the button
ButtonDisabled_IgnoresLoading(component) ==
    \E i \in DOMAIN component.triggers : HasError(errors, component.triggers[i])

\* renderComponent BUTTON, lines 127-128 and 154: disabled={isLoading || hasInputErrors}
ButtonDisabled(component) ==
    \/ Loading(executingState, component.id)
    \/ \E i \in DOMAIN component.triggers : HasError(errors, component.triggers[i])

\* onClick of a rendered, enabled button: handleButtonClick, lines 52-78 up to the await
handleButtonClick(buttonId) ==
    /\ Mounted
    /\ buttonId \in Ids(Buttons(appConfig))
    /\ LET component == ButtonOf(appConfig, buttonId)
           checked == ValidateTriggers(appConfig, component.triggers,
                          [newErrors |-> errors, hasErrors |-> FALSE])
           call == [button |-> buttonId, action |-> component.action,
                    live |-> TRUE, stale |-> FALSE]
       IN  /\ ~ButtonDisabled(component)
           /\ errors' = checked.newErrors
           /\ IF checked.hasErrors
                THEN /\ lastOp' = Op("Invoke", buttonId, Null, NoCall)
                     /\ UNCHANGED <<executingState, pending>>
                ELSE /\ BagCardinality(pending) < MaxPending
                     /\ executingState' =
                            Put(executingState, buttonId,
                                LaunchState(executingState, buttonId))
                     /\ pending' = pending (+) SetToBag({call})
                     /\ lastOp' = OpWith("Invoke", buttonId, Null, call,
                                         inputsToExecute(component.triggers))
    /\ UNCHANGED <<appConfig, activeView, inputValues, outputValues, succeeded>>

\* the finally block is missing
Finally_Missing(es, buttonId) == es

\* the finally block writes a fresh entry instead of spreading the previous one
Finally_DropsError(es, buttonId) ==
    Put(es, buttonId, [loading |-> FALSE, error |-> Null])

\* the finally block replaces the whole map instead of spreading it
Finally_ReplacesMap(es, buttonId) ==
    [b \in {buttonId} |->
        IF buttonId \in DOMAIN es
          THEN [es[buttonId] EXCEPT !.loading = FALSE]
          ELSE [loading |-> FALSE]]

\* handleButtonClick, line 84: the finally block
Finally(es, buttonId) ==
    Put(es, buttonId,
        IF buttonId \in DOMAIN es
          THEN [es[buttonId] EXCEPT !.loading = FALSE]
          ELSE [loading |-> FALSE])

\* the awaited call resolves: lines 78-79, then 84
ExecutorSucceeds(call, result) ==
    /\ BagIn(call, pending)
    /\ result \in Resolutions(call.action)
    /\ pending' = pending (-) SetToBag({call})
    /\ lastOp' = Op("ExecutorSucceeds", call.button, <<result>>, call)
    /\ IF call.live
         THEN /\ outputValues' = Put(outputValues, call.button, result)
              /\ executingState' = Finally(executingState, call.button)
              /\ succeeded' = succeeded \cup {call.button}
         ELSE UNCHANGED <<outputValues, executingState, succeeded>>
    /\ UNCHANGED <<appConfig, activeView, inputValues, errors>>

\* the awaited call rejects: lines 80-82, then 84
ExecutorFails(call, errorMessage) ==
    /\ BagIn(call, pending)
    /\ errorMessage \in Rejections(call.action)
    /\ pending' = pending (-) SetToBag({call})
    /\ lastOp' = Op("ExecutorFails", call.button, <<errorMessage>>, call)
    /\ IF call.live
         THEN executingState' =
                  Finally(Put(executingState, call.button,
                              [loading |-> FALSE, error |-> <<errorMessage>>]),
                          call.button)
         ELSE UNCHANGED executingState
    /\ UNCHANGED <<appConfig, activeView, inputValues, outputValues, errors,
                   succeeded>>

----------------------------------------------------------------------------
(* Render: renderComponent for the two output variants *)

NoNode == Null

\* outputValues[id], "" standing for undefined where only truthiness is read
OutputOrEmpty(id) == IF id \in DOMAIN outputValues THEN outputValues[id] ELSE ""

\* a thrown Error's message used as a condition
Truthy(optional) == optional # Null /\ optional # <<"">>

ResultNode(component, text) ==
    IF component.type = "OUTPUT_TEXT" THEN <<"Result", text>>
    ELSE <<"Generated Image", text>>

\* the early `return null` is missing
RenderOutput_NoEarlyReturn(component) ==
    LET id == component.displaysFor
        outputText == OutputOrEmpty(id)
        textError == ErrorOf(executingState, id)
    IN  IF Loading(executingState, id) THEN <<"Loader">>
        ELSE IF Truthy(textError) THEN <<"Error", textError[1]>>
        ELSE ResultNode(component, outputText)

\* renderComponent OUTPUT_TEXT lines 162-173, OUTPUT_IMAGE lines 175-186
RenderOutput(component) ==
    LET id == component.displaysFor
        outputText == OutputOrEmpty(id)
        textError == ErrorOf(executingState, id)
    IN  IF outputText = "" /\ ~Truthy(textError) /\ ~Loading(executingState, id)
          THEN NoNode
        ELSE IF Loading(executingState, id) THEN <<"Loader">>
        ELSE IF Truthy(textError) THEN <<"Error", textError[1]>>
        ELSE ResultNode(component, outputText)

----------------------------------------------------------------------------
(* The host: the part of App that owns appConfig and activeView *)

RECURSIVE Copies(_, _)
Copies(call, n) ==
    IF n = 0 THEN EmptyBag ELSE SetToBag({call}) (+) Copies(call, n - 1)

\* every call of the bag marked as started under an earlier description and,
\* with unmounted, as belonging to a renderer that is gone
RECURSIVE Relabel(_, _)
Relabel(calls, unmounted) ==
    IF calls = EmptyBag THEN EmptyBag
    ELSE LET call == CHOOSE c \in BagToSet(calls) : TRUE
             rest == [c \in BagToSet(calls) \ {call} |-> calls[c]]
             relabelled == [call EXCEPT !.live = call.live /\ ~unmounted,
                                        !.stale = TRUE]
         IN  Copies(relabelled, calls[call]) (+) Relabel(rest, unmounted)

\* the renderer instance is discarded: its awaited calls settle into nothing
Abandon(calls) == Relabel(calls, TRUE)

\* the description changed under the awaited calls
Outdate(calls) == Relabel(calls, FALSE)

Unmount ==
    /\ inputValues' = Empty
    /\ outputValues' = Empty
    /\ executingState' = Empty
    /\ errors' = Empty
    /\ succeeded' = {}
    /\ pending' = Abandon(pending)

\* handleSendMessage, line 159: setAppConfig(result.appConfig)
ReceiveConfig(cfg) ==
    /\ cfg \in ConfigNames
    /\ appConfig' = cfg
    /\ pending' = Outdate(pending)
    /\ lastOp' = Op("ReceiveConfig", cfg, Null, NoCall)
    /\ UNCHANGED <<activeView, inputValues, outputValues, executingState,
                   errors, succeeded>>

\* handleStartOver, lines 219-228
handleStartOver ==
    /\ appConfig' = NoConfig
    /\ activeView' = "preview"
    /\ flutterCode' = Null
    /\ currentUserInput' = <<>>
    /\ error' = Null
    /\ codeError' = Null
    /\ deploymentError' = Null
    /\ messages' = <<>>
    /\ Unmount
    /\ lastOp' = Op("StartOver", "", Null, NoCall)

\* the Preview / Flutter Code tabs, lines 378-379
setActiveView(view) ==
    /\ appConfig # NoConfig
    /\ view \in {"preview", "flutter"}
    /\ activeView' = view
    /\ lastOp' = Op("SetActiveView", view, Null, NoCall)
    /\ IF view # activeView
         THEN Unmount
         ELSE UNCHANGED <<inputValues, outputValues, executingState, errors,
                          succeeded, pending>>
    /\ UNCHANGED appConfig

----------------------------------------------------------------------------
(* Specifications *)

RendererInit ==
    /\ appConfig = NoConfig
    /\ activeView = "preview"
    /\ inputValues = Empty
    /\ outputValues = Empty
    /\ executingState = Empty
    /\ errors = Empty
    /\ pending = EmptyBag
    /\ succeeded = {}
    /\ lastOp = Op("Init", "", Null, NoCall)
    /\ recovery = "idle"

\* no source code, no deployment, none under way
NothingGenerated ==
    /\ flutterCode = Null
    /\ codeError = Null
    /\ deploymentError = Null
    /\ isGeneratingCode = FALSE
    /\ codeJobs = EmptyBag
    /\ isDeploying = FALSE
    /\ deploymentResult = Null
    /\ isDeployModalOpen = FALSE
    /\ deployments = EmptyBag

\* a signed-in session with an empty chat and nothing being generated
SignedInIdle ==
    /\ authState = "authenticated"
    /\ user = <<"alice">>
    /\ currentUser = <<"alice">>
    /\ isInitialized = TRUE
    /\ listeners = {"app"}
    /\ deferred = 0
    /\ googleLoaded = TRUE
    /\ storedToken = <<"jwt", "alice">>
    /\ authEffect = "subscribed"
    /\ messages = <<>>
    /\ currentUserInput = <<>>
    /\ error = Null
    /\ isLoading = FALSE
    /\ requests = EmptyBag
    /\ NothingGenerated

Init == RendererInit /\ ValidateIdle /\ ExecuteIdle /\ SignedInIdle

Next ==
    \/ \E id \in {"in1", "in2"}, value \in TypedValues :
           handleInputChange(id, value) /\ UNCHANGED nonRenderer
    \/ \E buttonId \in {"b1", "b2"} :
           handleButtonClick(buttonId) /\ UNCHANGED nonRenderer
    \/ \E call \in BagToSet(pending), result \in TextResults \cup ImageResults :
           ExecutorSucceeds(call, result) /\ UNCHANGED nonRenderer
    \/ \E call \in BagToSet(pending),
          errorMessage \in DownstreamErrors \cup {"Image generation failed."} :
           ExecutorFails(call, errorMessage) /\ UNCHANGED nonRenderer
    \/ \E cfg \in ConfigNames : ReceiveConfig(cfg) /\ UNCHANGED nonRenderer
    \/ handleStartOver /\ UNCHANGED <<hvars, svars, lvars, dvars>>
    \/ \E view \in {"preview", "flutter"} : setActiveView(view) /\ UNCHANGED nonRenderer

Spec == Init /\ [][Next]_vars

\* the awaited call of the mounted renderer for a button settles either way
SettleLive(buttonId) ==
    \E call \in BagToSet(pending) :
        /\ call.button = buttonId
        /\ call.live
        /\ \/ \E result \in TextResults \cup ImageResults :
                  ExecutorSucceeds(call, result)
           \/ \E errorMessage \in DownstreamErrors \cup {"Image generation failed."} :
                  ExecutorFails(call, errorMessage)
        /\ UNCHANGED nonRenderer

\* the renderer with every call it awaits settling in the end: a promise
\* returned by executeAppAction that is settled has its continuation run
SpecLive ==
    Init /\ [][Next]_vars /\ \A b \in {"b1", "b2"} : WF_vars(SettleLive(b))

\* validateInput on its own, over every value and rule set within the bounds
InitValidate == RendererInit /\ ValidateInit /\ ExecuteIdle /\ SignedInIdle

NextValidate ==
    CallValidate
      /\ UNCHANGED <<rvars, gvars, xvars, svars, cvars, lvars, kvars, dvars>>

SpecValidate == InitValidate /\ [][NextValidate]_vars

\* executeAppAction on its own, over every action value and bundle
InitExecute == RendererInit /\ ValidateIdle /\ ExecuteInit /\ SignedInIdle

NextExecute ==
    CallExecute
      /\ UNCHANGED <<rvars, vvars, gvars, svars, cvars, lvars, kvars, dvars>>

SpecExecute == InitExecute /\ [][NextExecute]_vars

Settled(op) == op.op \in {"ExecutorSucceeds", "ExecutorFails"}

\* how far the recovery from a refused Invoke of go_button has come:
\* "refused" once an Invoke recorded the required message and called nothing,
\* "fixed" once the input was then given a value that passes its rules,
\* "launched" once the next Invoke called the executor, "recovered" once
\* that call succeeded; a call left behind by an unmounted renderer settles
\* without a part in it
RecoveryStep ==
    recovery' =
        IF lastOp'.op = "Invoke" /\ lastOp'.call = NoCall
          THEN IF /\ "topic_input" \in DOMAIN errors'
                  /\ errors'["topic_input"] = RequiredMessage
                 THEN "refused" ELSE "idle"
        ELSE IF lastOp'.op = "Invoke"
          THEN IF recovery = "fixed" THEN "launched" ELSE "idle"
        ELSE IF lastOp'.op = "SetInputValue"
          THEN IF recovery \in {"refused", "fixed"}
                 THEN IF errors'[lastOp'.id] = Null THEN "fixed" ELSE "refused"
               ELSE IF recovery = "recovered" THEN "idle" ELSE recovery
        ELSE IF Settled(lastOp') /\ ~lastOp'.call.live
          THEN recovery
        ELSE IF lastOp'.op = "ExecutorSucceeds" /\ recovery = "launched"
          THEN "recovered"
        ELSE "idle"

offRenderer == <<vvars, xvars, svars, cvars, lvars, kvars, dvars>>

\* the renderer mounted with description T and nothing done yet
InitRecovery ==
    /\ appConfig = "T"
    /\ activeView = "preview"
    /\ inputValues = Empty
    /\ outputValues = Empty
    /\ executingState = Empty
    /\ errors = Empty
    /\ pending = EmptyBag
    /\ succeeded = {}
    /\ lastOp = Op("Init", "", Null, NoCall)
    /\ recovery = "idle"
    /\ ValidateIdle
    /\ ExecuteIdle
    /\ SignedInIdle

NextRecovery ==
    \/ \E value \in TypedValues \cup {<<>>} :
           handleInputChange("topic_input", value) /\ RecoveryStep /\ UNCHANGED offRenderer
    \/ handleButtonClick("go_button") /\ RecoveryStep /\ UNCHANGED offRenderer
    \/ \E call \in BagToSet(pending), result \in TextResults :
           ExecutorSucceeds(call, result) /\ RecoveryStep /\ UNCHANGED offRenderer
    \/ \E call \in BagToSet(pending), errorMessage \in DownstreamErrors :
           ExecutorFails(call, errorMessage) /\ RecoveryStep /\ UNCHANGED offRenderer
    \/ \E view \in {"preview", "flutter"} :
           setActiveView(view) /\ RecoveryStep /\ UNCHANGED offRenderer

SpecRecovery == InitRecovery /\ [][NextRecovery]_vars

----------------------------------------------------------------------------
(* Authentication: authService.ts and the mount effect of App *)

Users == {"alice"}

\* sessionStorage holds nothing, a token that decodes to a user, or a token
\* that jwtDecode throws on
NoToken == Null
TokenOf(u) == <<"jwt", u>>
CorruptToken == <<"jwt">>
Decodable(token) == Len(token) = 2
\* jwtDecode, lines 30-38
jwtDecode(token) == <<token[2]>>

\* the listener is fooled into reporting a session
AuthStateOf_Always(authUser) == "authenticated"

\* the listener App subscribes, part_001 lines 103-106
AuthStateOf(authUser) ==
    IF authUser # Null THEN "authenticated" ELSE "unauthenticated"

\* notifyListeners, lines 26-28, with authUser the value of currentUser
Notify(subscribed, authUser) ==
    IF "app" \in subscribed
      THEN user' = authUser /\ authState' = AuthStateOf(authUser)
      ELSE UNCHANGED <<user, authState>>

\* the Google Identity Services script finishes loading
GoogleScriptLoads ==
    /\ ~googleLoaded
    /\ googleLoaded' = TRUE
    /\ lastOp' = Op("GoogleScriptLoads", "", Null, NoCall)
    /\ UNCHANGED <<authState, user, currentUser, isInitialized, listeners,
                   deferred, storedToken, authEffect>>

\* initializeGoogleSignIn, lines 47-70, followed by onAuthStateChanged,
\* lines 95-105, as initAuth calls them (part_001 lines 101-107)
InitializeAndSubscribe ==
    LET decoded == IF storedToken # NoToken /\ Decodable(storedToken)
                     THEN jwtDecode(storedToken) ELSE currentUser
        authUser == IF isInitialized THEN currentUser ELSE decoded
    IN  /\ isInitialized' = TRUE
        /\ currentUser' = authUser
        /\ storedToken' = IF /\ ~isInitialized
                             /\ storedToken # NoToken
                             /\ ~Decodable(storedToken)
                            THEN NoToken ELSE storedToken
        /\ IF isInitialized THEN UNCHANGED <<user, authState>>
           ELSE Notify(listeners, authUser)
        /\ listeners' = listeners \cup {"app"}
        /\ deferred' = deferred + 1
        /\ authEffect' = "subscribed"

\* initAuth, part_001 lines 100-112: run by the mount effect and, while
\* window.google is missing, again by its 100 ms timer
initAuth ==
    /\ authEffect \in {"unrun", "waiting"}
    /\ lastOp' = Op("InitAuth", "", Null, NoCall)
    /\ IF googleLoaded
         THEN InitializeAndSubscribe
         ELSE /\ authEffect = "unrun"
              /\ authEffect' = "waiting"
              /\ UNCHANGED <<authState, user, currentUser, isInitialized,
                             listeners, deferred, storedToken>>
    /\ UNCHANGED googleLoaded

\* Promise.resolve().then(() => callback(currentUser)), authService line 99
DeliverInitial ==
    /\ deferred > 0
    /\ deferred' = deferred - 1
    /\ user' = currentUser
    /\ authState' = AuthStateOf(currentUser)
    /\ lastOp' = Op("DeliverInitial", "", Null, NoCall)
    /\ UNCHANGED <<currentUser, isInitialized, listeners, googleLoaded,
                   storedToken, authEffect>>

\* what App returns: part_001 lines 236-244 and 304
Screen ==
    IF authState = "loading" THEN "Loader"
    ELSE IF authState = "unauthenticated" THEN "LoginPage"
    ELSE IF appConfig = NoConfig THEN "Welcome"
    ELSE "Main"

\* the chat input, the preview and the deploy control are in these two
BuilderShown == Screen \in {"Welcome", "Main"}

\* handleCredentialResponse, lines 40-45: the user completes the Google
\* sign-in started from the button of the login page
handleCredentialResponse(u) ==
    /\ Screen = "LoginPage"
    /\ isInitialized
    /\ storedToken' = TokenOf(u)
    /\ currentUser' = jwtDecode(TokenOf(u))
    /\ Notify(listeners, jwtDecode(TokenOf(u)))
    /\ lastOp' = Op("SignIn", u, Null, NoCall)
    /\ UNCHANGED <<isInitialized, listeners, deferred, googleLoaded, authEffect>>

\* signOut, authService lines 83-93
signOut ==
    /\ currentUser' = Null
    /\ storedToken' = NoToken
    /\ Notify(listeners, Null)
    /\ UNCHANGED <<isInitialized, listeners, deferred, googleLoaded, authEffect>>

----------------------------------------------------------------------------
(* The chat: handleSendMessage, part_001 lines 139-170 *)

\* texts typed into the chat box, and the example prompts of the welcome page
ChatTexts == { <<" ">>, <<"a">> }
ExamplePrompts == { <<"a", "a">> }

EmptyPromptMessage == "Please enter a description for your app."

\* what generateOrRefineAppConfig can reject with: an Error thrown by the
\* model call, the Error thrown when the reply is not JSON, or a value that
\* is not an Error
GenerationFailures ==
    { [isError |-> TRUE, message |-> "Network error"],
      [isError |-> TRUE,
       message |-> "The AI returned an invalid app configuration. Please try again."],
      [isError |-> FALSE] }

\* every caught value is reported with the fallback text
CaughtMessage_Generic(thrown) == "An unknown error occurred."

\* err instanceof Error ? err.message : 'An unknown error occurred.'
CaughtMessage(thrown) ==
    IF thrown.isError THEN thrown.message ELSE "An unknown error occurred."

\* onChange of the chat box
setCurrentUserInput(text) ==
    /\ BuilderShown
    /\ currentUserInput' = text
    /\ lastOp' = Op("SetChatInput", "", <<text>>, NoCall)
    /\ UNCHANGED <<messages, error, isLoading, requests>>

\* the text is sent as it was typed
PromptOf_Untrimmed(messageContent, input) ==
    IF messageContent # <<>> THEN messageContent ELSE input

\* (messageContent || currentUserInput).trim(), line 140
PromptOf(messageContent, input) ==
    Trim(IF messageContent # <<>> THEN messageContent ELSE input)

\* the ways handleSendMessage is reached: the submit button of either form
\* (disabled while isLoading), the Enter key in the chat box of the main
\* layout, an example prompt of the welcome page
CanSend(via) ==
    /\ BuilderShown
    /\ via = "submit" => ~isLoading
    /\ via = "enter" => Screen = "Main"
    /\ via = "example" => Screen = "Welcome"

\* handleSendMessage up to its await, lines 139-157
handleSendMessage(via, messageContent) ==
    /\ CanSend(via)
    /\ (via = "example") <=> (messageContent # <<>>)
    /\ LET prompt == PromptOf(messageContent, currentUserInput)
           request == [prompt |-> prompt, config |-> appConfig]
       IN  IF prompt = <<>>
             THEN /\ error' = <<EmptyPromptMessage>>
                  /\ lastOp' = Op("SendRefused", via, Null, NoCall)
                  /\ UNCHANGED <<messages, currentUserInput, isLoading, requests,
                                 deploymentError>>
             ELSE /\ BagCardinality(requests) < MaxRequests
                  /\ Len(messages) + BagCardinality(requests) + 2 <= MaxMessages
                  /\ messages' = Append(messages, [role |-> "user", content |-> prompt])
                  /\ currentUserInput' = <<>>
                  /\ isLoading' = TRUE
                  /\ error' = Null
                  /\ deploymentError' = Null
                  /\ requests' = requests (+) SetToBag({request})
                  /\ lastOp' = Op("Send", via, <<prompt>>, NoCall)

\* the start of generateCode, lines 173-177, which the effect on appConfig
\* runs for every new description that is not null
StartCodeGeneration(cfg) ==
    /\ isGeneratingCode' = TRUE
    /\ codeError' = Null
    /\ flutterCode' = Null
    /\ codeJobs' = codeJobs (+) SetToBag({[config |-> cfg]})

\* generateOrRefineAppConfig resolves: lines 159-163, then 168; the new
\* appConfig object then triggers the effect of lines 172-190
GenerateSucceeds(request, cfg) ==
    /\ BagIn(request, requests)
    /\ BagCardinality(codeJobs) < MaxCodeJobs
    /\ requests' = requests (-) SetToBag({request})
    /\ ReceiveConfig(cfg)
    /\ StartCodeGeneration(cfg)
    /\ messages' = Append(messages, [role |-> "assistant", content |-> <<cfg>>])
    /\ isLoading' = FALSE
    /\ UNCHANGED <<currentUserInput, error>>

\* generateOrRefineAppConfig rejects: lines 164-168
GenerateFails(request, thrown) ==
    /\ BagIn(request, requests)
    /\ thrown \in GenerationFailures
    /\ requests' = requests (-) SetToBag({request})
    /\ error' = <<CaughtMessage(thrown)>>
    /\ isLoading' = FALSE
    /\ lastOp' = Op("GenerateFails", "", <<thrown>>, NoCall)
    /\ UNCHANGED <<messages, currentUserInput>>

\* the Sign Out entry of the profile menu, which only the welcome page has:
\* handleSignOut, lines 133-137
handleSignOut ==
    /\ Screen = "Welcome"
    /\ signOut
    /\ appConfig' = NoConfig
    /\ activeView' = "preview"
    /\ currentUserInput' = <<>>
    /\ error' = Null
    /\ messages' = <<>>
    /\ Unmount
    /\ flutterCode' = Null
    /\ codeError' = Null
    /\ deploymentError' = Null
    /\ lastOp' = Op("SignOut", "", Null, NoCall)
    /\ UNCHANGED <<isLoading, requests>>

----------------------------------------------------------------------------
(* Source code generation and deployment: part_001 lines 172-210, a0.ts *)

\* the source code generateFlutterCode returns for a description
FlutterCodes(cfg) == {[config |-> cfg, text |-> "void main() {}"]}

\* what generateFlutterCode can reject with
CodeFailures == { [isError |-> TRUE, message |-> "Network error"],
                  [isError |-> FALSE] }

CodeCaughtMessage(thrown) ==
    IF thrown.isError THEN thrown.message
    ELSE "An unknown error occurred while generating code."

\* generateFlutterCode resolves: line 179, then 184
CodeSucceeds(job, code) ==
    /\ BagIn(job, codeJobs)
    /\ code \in FlutterCodes(job.config)
    /\ codeJobs' = codeJobs (-) SetToBag({job})
    /\ flutterCode' = <<code>>
    /\ isGeneratingCode' = FALSE
    /\ lastOp' = Op("CodeSucceeds", job.config, <<code>>, NoCall)
    /\ UNCHANGED <<codeError, deploymentError, isDeploying, deploymentResult,
                   isDeployModalOpen, deployments>>

\* generateFlutterCode rejects: lines 180-184
CodeFails(job, thrown) ==
    /\ BagIn(job, codeJobs)
    /\ thrown \in CodeFailures
    /\ codeJobs' = codeJobs (-) SetToBag({job})
    /\ codeError' = <<CodeCaughtMessage(thrown)>>
    /\ isGeneratingCode' = FALSE
    /\ lastOp' = Op("CodeFails", job.config, <<thrown>>, NoCall)
    /\ UNCHANGED <<flutterCode, deploymentError, isDeploying, deploymentResult,
                   isDeployModalOpen, deployments>>

\* the deploy button, line 381: disabled={!flutterCode || isDeploying}
DeployDisabled == flutterCode = Null \/ isDeploying

\* handleDeploy up to its await, lines 196-201
handleDeploy ==
    /\ Screen = "Main"
    /\ ~DeployDisabled
    /\ flutterCode # Null
    /\ isDeploying' = TRUE
    /\ deploymentError' = Null
    /\ deployments' = deployments (+) SetToBag({[code |-> flutterCode[1]]})
    /\ lastOp' = Op("Deploy", "", flutterCode, NoCall)
    /\ UNCHANGED <<flutterCode, codeError, isGeneratingCode, codeJobs,
                   deploymentResult, isDeployModalOpen>>

\* a0.ts deploy: resolves with a url and its QR code, or rejects
DeploymentResults == {[url |-> "https://a0-x.dev-app.io"]}
DeployFailures ==
    {[isError |-> TRUE,
      message |-> "Mock deployment failed due to a transient error. Please try again."]}

\* every caught value is reported as nothing
DeployCaughtMessage_Swallowed(thrown) == ""

DeployCaughtMessage(thrown) ==
    IF thrown.isError THEN thrown.message ELSE "Deployment failed."

\* deploy resolves: lines 202-203, then 208
DeploySucceeds(deployment, result) ==
    /\ BagIn(deployment, deployments)
    /\ result \in DeploymentResults
    /\ deployments' = deployments (-) SetToBag({deployment})
    /\ deploymentResult' = <<result>>
    /\ isDeployModalOpen' = TRUE
    /\ isDeploying' = FALSE
    /\ lastOp' = Op("DeploySucceeds", "", <<result>>, NoCall)
    /\ UNCHANGED <<kvars, isGeneratingCode, codeJobs>>

\* deploy rejects: lines 204-208
DeployFails(deployment, thrown) ==
    /\ BagIn(deployment, deployments)
    /\ thrown \in DeployFailures
    /\ deployments' = deployments (-) SetToBag({deployment})
    /\ deploymentError' = <<DeployCaughtMessage(thrown)>>
    /\ isDeploying' = FALSE
    /\ lastOp' = Op("DeployFails", "", <<thrown>>, NoCall)
    /\ UNCHANGED <<flutterCode, codeError, isGeneratingCode, codeJobs,
                   deploymentResult, isDeployModalOpen>>

\* the close button and the backdrop of the deployment dialog, lines 307-309
CloseModal ==
    /\ Screen = "Main"
    /\ isDeployModalOpen
    /\ deploymentResult # Null
    /\ isDeployModalOpen' = FALSE
    /\ lastOp' = Op("CloseModal", "", Null, NoCall)
    /\ UNCHANGED <<kvars, isGeneratingCode, codeJobs, isDeploying,
                   deploymentResult, deployments>>

\* the state of the page when it is loaded: nothing mounted, the script
\* loaded or not, sessionStorage as an earlier visit of the tab left it
InitApp ==
    /\ RendererInit
    /\ ValidateIdle
    /\ ExecuteIdle
    /\ authState = "loading"
    /\ user = Null
    /\ currentUser = Null
    /\ isInitialized = FALSE
    /\ listeners = {}
    /\ deferred = 0
    /\ googleLoaded \in BOOLEAN
    /\ storedToken \in {NoToken, CorruptToken} \cup {TokenOf(u) : u \in Users}
    /\ authEffect = "unrun"
    /\ messages = <<>>
    /\ currentUserInput = <<>>
    /\ error = Null
    /\ isLoading = FALSE
    /\ requests = EmptyBag
    /\ NothingGenerated

rendererState == <<inputValues, outputValues, executingState, errors, pending,
                   succeeded>>

\* appConfig, activeView and the renderer: what only a new description, a tab
\* switch, Start Over or a sign-out changes
hostState == <<appConfig, activeView, rendererState>>

NextApp ==
    \/ GoogleScriptLoads /\ UNCHANGED <<hostState, hvars, cvars, lvars, kvars, dvars>>
    \/ initAuth /\ UNCHANGED <<hostState, hvars, cvars, lvars, kvars, dvars>>
    \/ DeliverInitial /\ UNCHANGED <<hostState, hvars, cvars, lvars, kvars, dvars>>
    \/ \E u \in Users :
           handleCredentialResponse(u)
             /\ UNCHANGED <<hostState, hvars, cvars, lvars, kvars, dvars>>
    \/ handleSignOut /\ UNCHANGED <<hvars, dvars>>
    \/ \E text \in ChatTexts :
           setCurrentUserInput(text)
             /\ UNCHANGED <<hostState, hvars, svars, kvars, dvars>>
    \/ \E via \in {"submit", "enter", "example"},
          messageContent \in {<<>>} \cup ExamplePrompts :
           handleSendMessage(via, messageContent)
             /\ UNCHANGED <<hostState, hvars, svars, flutterCode, codeError, dvars>>
    \/ \E request \in BagToSet(requests), cfg \in ConfigNames :
           GenerateSucceeds(request, cfg)
             /\ UNCHANGED <<hvars, svars, deploymentError, isDeploying,
                            deploymentResult, isDeployModalOpen, deployments>>
    \/ \E request \in BagToSet(requests), thrown \in GenerationFailures :
           GenerateFails(request, thrown)
             /\ UNCHANGED <<hostState, hvars, svars, kvars, dvars>>
    \/ \E job \in BagToSet(codeJobs) :
         \E code \in FlutterCodes(job.config) :
           CodeSucceeds(job, code)
             /\ UNCHANGED <<hostState, hvars, svars, cvars, lvars>>
    \/ Screen = "Main" /\ handleStartOver /\ UNCHANGED <<hvars, svars, lvars, dvars>>
    \/ \E view \in {"preview", "flutter"} :
           Screen = "Main" /\ setActiveView(view) /\ UNCHANGED nonRenderer

SpecApp == InitApp /\ [][NextApp]_vars

\* the function onAuthStateChanged returns, authService lines 102-104,
\* called by the subscriber that holds it (App's effect cleanup, part_001
\* lines 114-118)
Unsubscribe ==
    /\ authEffect = "subscribed"
    /\ listeners' = listeners \ {"app"}
    /\ authEffect' = "unsubscribed"
    /\ lastOp' = Op("Unsubscribe", "", Null, NoCall)
    /\ UNCHANGED <<authState, user, currentUser, isInitialized, deferred,
                   googleLoaded, storedToken>>

\* the subscriber starts again after it has unsubscribed (App is mounted
\* again): initAuth, part_001 lines 100-107, with window.google present
Resubscribe ==
    /\ authEffect = "unsubscribed"
    /\ deferred < MaxDeferred
    /\ InitializeAndSubscribe
    /\ lastOp' = Op("Resubscribe", "", Null, NoCall)
    /\ UNCHANGED googleLoaded

\* the authService module with its one subscriber: the subscription, the
\* notifications of a sign-in and a sign-out, and the end of the subscription
NextAuth ==
    \/ Resubscribe /\ UNCHANGED <<hostState, hvars, cvars, lvars, kvars, dvars>>
    \/ GoogleScriptLoads /\ UNCHANGED <<hostState, hvars, cvars, lvars, kvars, dvars>>
    \/ initAuth /\ UNCHANGED <<hostState, hvars, cvars, lvars, kvars, dvars>>
    \/ DeliverInitial /\ UNCHANGED <<hostState, hvars, cvars, lvars, kvars, dvars>>
    \/ \E u \in Users :
           handleCredentialResponse(u)
             /\ UNCHANGED <<hostState, hvars, cvars, lvars, kvars, dvars>>
    \/ /\ signOut
       /\ lastOp' = Op("AuthSignOut", "", Null, NoCall)
       /\ UNCHANGED <<hostState, hvars, cvars, lvars, kvars, dvars>>
    \/ Unsubscribe /\ UNCHANGED <<hostState, hvars, cvars, lvars, kvars, dvars>>

SpecAuth == InitApp /\ [][NextAuth]_vars

\* the builder of a signed-in user: the chat, the source code generated for
\* each description, and its deployment
BuildChat ==
    \/ \E via \in {"submit", "enter", "example"},
          messageContent \in {<<>>} \cup ExamplePrompts :
           handleSendMessage(via, messageContent)
             /\ UNCHANGED <<hostState, hvars, svars, flutterCode, codeError, dvars>>
    \/ \E request \in BagToSet(requests), cfg \in ConfigNames :
           GenerateSucceeds(request, cfg)
             /\ UNCHANGED <<hvars, svars, deploymentError, isDeploying,
                            deploymentResult, isDeployModalOpen, deployments>>
    \/ Screen = "Main" /\ handleStartOver /\ UNCHANGED <<hvars, svars, lvars, dvars>>

BuildCode ==
    \/ \E job \in BagToSet(codeJobs) :
         \E code \in FlutterCodes(job.config) :
           CodeSucceeds(job, code)
             /\ UNCHANGED <<hostState, hvars, svars, cvars, lvars>>
    \/ \E job \in BagToSet(codeJobs), thrown \in CodeFailures :
           CodeFails(job, thrown)
             /\ UNCHANGED <<hostState, hvars, svars, cvars, lvars>>

BuildDeploy ==
    \/ handleDeploy /\ UNCHANGED <<hostState, hvars, svars, cvars, lvars>>
    \/ \E deployment \in BagToSet(deployments), result \in DeploymentResults :
           DeploySucceeds(deployment, result)
             /\ UNCHANGED <<hostState, hvars, svars, cvars, lvars>>
    \/ \E deployment \in BagToSet(deployments), thrown \in DeployFailures :
           DeployFails(deployment, thrown)
             /\ UNCHANGED <<hostState, hvars, svars, cvars, lvars>>
    \/ CloseModal /\ UNCHANGED <<hostState, hvars, svars, cvars, lvars>>

NextBuild == BuildChat \/ BuildCode \/ BuildDeploy

SpecBuild == Init /\ [][NextBuild]_vars

----------------------------------------------------------------------------
(* Properties: re-entrancy, stale results, reset *)

ButtonIds == {"b1", "b2"}

\* the suspended calls of a button; with onlyLive, those of the mounted renderer
CallsOf(buttonId, onlyLive) ==
    LET own == {c \in BagToSet(pending) :
                   c.button = buttonId /\ (c.live \/ ~onlyLive)}
    IN  BagCardinality([c \in own |-> pending[c]])

\* C1 as stated: for every button, the executor calls started for it and not
\* yet settled never number more than one.
C1_OneOutstandingCallPerButton ==
    \A b \in ButtonIds : CallsOf(b, FALSE) <= 1

\* C1 amended: for every button, the executor calls started for it by the
\* renderer that is currently mounted, and not yet settled, never number more
\* than one.
C1_OneLiveCallPerButton ==
    \A b \in ButtonIds : CallsOf(b, TRUE) <= 1

C1_Witness ==
    /\ Mounted
    /\ CallsOf("b1", TRUE) = 1
    /\ CallsOf("b2", TRUE) = 1
    /\ ButtonDisabled(ButtonOf(appConfig, "b1"))
    /\ ~ENABLED handleButtonClick("b1")

\* C2: the result of an executor call that was outstanding when the renderer
\* was given a new description is dropped: when it settles, neither
\* outputValues nor executionState changes.
C2_StaleResultDropped ==
    [][(Settled(lastOp') /\ lastOp'.call.stale)
          => (outputValues' = outputValues /\ executingState' = executingState)]_vars

\* C3: immediately after the renderer receives a new description, inputValues,
\* errors, outputValues and executionState are all empty.
C3_ResetOnNewDescription ==
    [][lastOp'.op = "ReceiveConfig"
          => (/\ inputValues' = Empty
              /\ errors' = Empty
              /\ outputValues' = Empty
              /\ executingState' = Empty)]_vars

----------------------------------------------------------------------------
(* Properties: Invoke refused by validation *)

\* the triggers of a button that are inputs of the description and whose
\* current value fails its rules
FailingTriggers(cfg, buttonId) ==
    LET triggers == ButtonOf(cfg, buttonId).triggers
    IN  {t \in {triggers[i] : i \in DOMAIN triggers} :
            /\ HasInput(cfg, t)
            /\ validateInput(GetText(inputValues, t),
                             ValidationOf(InputOf(cfg, t))) # Null}

\* C4: an Invoke of a button of which at least one trigger fails validation
\* records the message of every failing trigger in that one step, leaves
\* executionState and outputValues as they were, and starts no executor call.
C4_RefusedInvoke ==
    [][(lastOp'.op = "Invoke" /\ FailingTriggers(appConfig, lastOp'.id) # {})
          => (/\ \A t \in FailingTriggers(appConfig, lastOp'.id) :
                     /\ t \in DOMAIN errors'
                     /\ errors'[t] = validateInput(GetText(inputValues, t),
                                        ValidationOf(InputOf(appConfig, t)))
              /\ executingState' = executingState
              /\ outputValues' = outputValues
              /\ pending' = pending
              /\ lastOp'.call = NoCall)]_vars

C4_Witness ==
    /\ lastOp.op = "Invoke"
    /\ lastOp.id = "b1"
    /\ lastOp.call = NoCall
    /\ appConfig = "A"
    /\ Cardinality(FailingTriggers("A", "b1")) = 2
    /\ HasError(errors, "in1")
    /\ HasError(errors, "in2")

----------------------------------------------------------------------------
(* Properties: rendering of outputs *)

\* C5: an output whose bound button has no completed successful Invoke, is
\* not in flight and has no recorded error renders no node.
C5_NoNodeWithoutHistory ==
    \A i \in DOMAIN Outputs(appConfig) :
        LET component == Outputs(appConfig)[i]
            b == component.displaysFor
        IN  (/\ b \notin succeeded
             /\ ~Loading(executingState, b)
             /\ ErrorOf(executingState, b) = Null)
                => RenderOutput(component) = NoNode

C5_Witness ==
    /\ appConfig = "A"
    /\ Mounted
    /\ "b1" \notin succeeded
    /\ ~Loading(executingState, "b1")
    /\ ErrorOf(executingState, "b1") = Null
    /\ "b2" \in succeeded
    /\ RenderOutput(ConfigA[6]) = NoNode
    /\ RenderOutput(ConfigA[7]) # NoNode

\* C6: after an Invoke of a button succeeded with the empty string (button
\* not in flight, no lastError), every output bound to it renders a node.
C6_EmptyResultRendered ==
    \A i \in DOMAIN Outputs(appConfig) :
        LET component == Outputs(appConfig)[i]
            b == component.displaysFor
        IN  (/\ b \in succeeded
             /\ b \in DOMAIN outputValues
             /\ outputValues[b] = ""
             /\ ~Loading(executingState, b)
             /\ ErrorOf(executingState, b) = Null)
                => RenderOutput(component) # NoNode

----------------------------------------------------------------------------
(* Properties: validateInput *)

TrimmedLen(value) == Len(Trim(value))

FailsRequired(value, rules) ==
    "required" \in DOMAIN rules /\ rules.required = TRUE /\ TrimmedLen(value) = 0
FailsMinLength(value, rules) ==
    "minLength" \in DOMAIN rules /\ TrimmedLen(value) < rules.minLength
FailsMaxLength(value, rules) ==
    "maxLength" \in DOMAIN rules /\ TrimmedLen(value) > rules.maxLength

FailCount(value, rules) ==
    (IF FailsRequired(value, rules) THEN 1 ELSE 0)
    + (IF FailsMinLength(value, rules) THEN 1 ELSE 0)
    + (IF FailsMaxLength(value, rules) THEN 1 ELSE 0)

\* C7: when two or more of the checks required, minLength, maxLength fail on
\* the trimmed value, validateInput returns the message of the earliest of
\* them in that order; when the rules object is absent it returns null.
C7_FirstFailingCheckWins ==
    vDone =>
        IF vRules = Null THEN vResult = Null
        ELSE FailCount(vValue, vRules[1]) >= 2
                => vResult = IF FailsRequired(vValue, vRules[1])
                               THEN RequiredMessage
                               ELSE MinLengthMessage(vRules[1].minLength)

C7_Witness ==
    /\ vDone
    /\ vRules # Null
    /\ ~FailsRequired(vValue, vRules[1])
    /\ FailsMinLength(vValue, vRules[1])
    /\ FailsMaxLength(vValue, vRules[1])
    /\ vResult = MinLengthMessage(vRules[1].minLength)

\* C8: whenever maxLength is present (0 included) and the value passes the
\* required and minLength checks and its trimmed length exceeds maxLength,
\* validateInput returns "Cannot be more than {maxLength} characters long."
C8_MaxLengthEnforced ==
    (/\ vDone
     /\ vRules # Null
     /\ "maxLength" \in DOMAIN vRules[1]
     /\ ~FailsRequired(vValue, vRules[1])
     /\ ~FailsMinLength(vValue, vRules[1])
     /\ TrimmedLen(vValue) > vRules[1].maxLength)
        => vResult = MaxLengthMessage(vRules[1].maxLength)

----------------------------------------------------------------------------
(* Properties: SetInputValue and a successful Invoke *)

\* g is f with key k set to v and nothing else changed
OnlyChanged(f, g, k, v) ==
    /\ DOMAIN g = (DOMAIN f) \cup {k}
    /\ g[k] = v
    /\ \A x \in (DOMAIN f) \ {k} : g[x] = f[x]

\* C9: SetInputValue(id, v) sets inputValues[id] to v and errors[id] to
\* validate(v, rules of id) in one step, and changes no other entry of
\* inputValues or errors, nor executionState, nor outputValues.
C9_SetInputValueFrame ==
    [][lastOp'.op = "SetInputValue"
          => (/\ OnlyChanged(inputValues, inputValues', lastOp'.id, lastOp'.arg[1])
              /\ OnlyChanged(errors, errors', lastOp'.id,
                     validateInput(lastOp'.arg[1],
                         ValidationOf(InputOf(appConfig, lastOp'.id))))
              /\ executingState' = executingState
              /\ outputValues' = outputValues
              /\ pending' = pending)]_vars

C9_Witness ==
    /\ lastOp.op = "SetInputValue"
    /\ lastOp.id = "in1"
    /\ appConfig = "A"
    /\ errors["in1"] = MaxLengthMessage(2)
    /\ "in2" \in DOMAIN inputValues
    /\ "in2" \in DOMAIN errors
    /\ errors["in2"] = Null
    /\ Loading(executingState, "b2")

\* C10: when the executor call of an Invoke of button B made by the mounted
\* renderer succeeds with r, then outputValues[B] = r and executionState[B]
\* is {inFlight: false, lastError: null}, whatever error B had before.
C10_SuccessCommits ==
    [][(lastOp'.op = "ExecutorSucceeds" /\ lastOp'.call.live)
          => (/\ lastOp'.id \in DOMAIN outputValues'
              /\ outputValues'[lastOp'.id] = lastOp'.arg[1]
              /\ lastOp'.id \in DOMAIN executingState'
              /\ executingState'[lastOp'.id] = [loading |-> FALSE, error |-> Null])]_vars

C10_Witness ==
    /\ lastOp.op = "ExecutorSucceeds"
    /\ lastOp.call.live
    /\ lastOp.id = "b1"
    /\ outputValues["b1"] = "Cats are great"
    /\ executingState["b1"] = [loading |-> FALSE, error |-> Null]
    /\ ErrorOf(executingState, "b2") # Null

----------------------------------------------------------------------------
(* Properties: a failed Invoke, the disabled rule, the bundle *)

\* f and g agree on key k: both lack it or both map it to the same value
SameEntry(f, g, k) ==
    /\ (k \in DOMAIN f) <=> (k \in DOMAIN g)
    /\ k \in DOMAIN f => f[k] = g[k]

\* C11: when the executor call of an Invoke of button B made by the mounted
\* renderer fails with message m, outputValues[B] is what it was before the
\* Invoke (the launch does not change it, no step taken while the call is
\* awaited changes it, and the failure does not change it: a previous result
\* stays, an absent entry stays absent) and executionState[B] is
\* {inFlight: false, lastError: m}.
C11_FailureKeepsOutput ==
    [][/\ (lastOp'.op = "Invoke" /\ lastOp'.call # NoCall)
             => outputValues' = outputValues
       /\ \A b \in ButtonIds :
             (CallsOf(b, TRUE) > 0 /\ CallsOf(b, TRUE)' > 0)
                 => SameEntry(outputValues, outputValues', b)
       /\ (lastOp'.op = "ExecutorFails" /\ lastOp'.call.live)
             => (/\ outputValues' = outputValues
                 /\ lastOp'.id \in DOMAIN executingState'
                 /\ executingState'[lastOp'.id] =
                        [loading |-> FALSE, error |-> lastOp'.arg])]_vars

C11_Witness ==
    /\ lastOp.op = "ExecutorFails"
    /\ lastOp.call.live
    /\ lastOp.id = "b1"
    /\ "b1" \in DOMAIN outputValues
    /\ outputValues["b1"] = "Cats are great"
    /\ executingState["b1"] = [loading |-> FALSE, error |-> <<"Network error">>]
    /\ "b2" \notin DOMAIN outputValues
    /\ ErrorOf(executingState, "b2") = <<"Image generation failed.">>

\* the ids listed in a button's triggers
TriggerIds(component) == {component.triggers[i] : i \in DOMAIN component.triggers}

\* C12: in every reachable state, every button of the rendered description is
\* rendered disabled exactly when its executionState entry is in flight or at
\* least one id in its triggers has a non-null entry in errors.
C12_DisabledRule ==
    Mounted =>
        \A b \in Ids(Buttons(appConfig)) :
            LET component == ButtonOf(appConfig, b)
                inFlight == b \in DOMAIN executingState /\ executingState[b].loading
                triggerError == \E t \in TriggerIds(component) :
                                    t \in DOMAIN errors /\ errors[t] # Null
            IN  ButtonDisabled(component) <=> (inFlight \/ triggerError)

C12_Witness ==
    /\ Mounted
    /\ appConfig = "A"
    /\ "in1" \in DOMAIN errors /\ errors["in1"] # Null
    /\ ~Loading(executingState, "b1")
    /\ ButtonDisabled(ButtonOf(appConfig, "b1"))
    /\ "in2" \in DOMAIN errors /\ errors["in2"] = Null
    /\ Loading(executingState, "b2")
    /\ ButtonDisabled(ButtonOf(appConfig, "b2"))

\* C13: when Invoke(B) passes validation, the executor is called exactly once
\* with B's action and a bundle whose keys are exactly the ids in B's
\* triggers, each mapped to the input's value at the time of the Invoke, the
\* empty string standing for an input that was never set.
C13_BundleOfInvoke ==
    [][(lastOp'.op = "Invoke" /\ FailingTriggers(appConfig, lastOp'.id) = {})
          => LET component == ButtonOf(appConfig, lastOp'.id)
                 call == lastOp'.call
                 bundle == lastOp'.inputs
             IN  /\ call # NoCall
                 /\ call.button = component.id
                 /\ call.action = component.action
                 /\ pending' = pending (+) SetToBag({call})
                 /\ BagCardinality(pending') = BagCardinality(pending) + 1
                 /\ DOMAIN bundle = TriggerIds(component)
                 /\ \A t \in TriggerIds(component) :
                        bundle[t] = IF t \in DOMAIN inputValues
                                      THEN inputValues[t] ELSE <<>>]_vars

C13_Witness ==
    /\ lastOp.op = "Invoke"
    /\ lastOp.id = "b1"
    /\ appConfig = "B"
    /\ lastOp.call.action = "GENERATE_TEXT"
    /\ BagIn(lastOp.call, pending)
    /\ DOMAIN lastOp.inputs = {"in1", "in2"}
    /\ lastOp.inputs["in1"] = <<" ">>
    /\ lastOp.inputs["in2"] = <<>>

----------------------------------------------------------------------------
(* Properties: dangling references, the keys of the state maps *)

\* the ids in a button's triggers that are not INPUT_TEXT components of cfg
DanglingTriggers(cfg, buttonId) ==
    TriggerIds(ButtonOf(cfg, buttonId)) \ Ids(textInputs(cfg))

\* the outputs of cfg whose displaysFor is not the id of a button of cfg
DanglingOutputs(cfg) ==
    LET outs == Outputs(cfg)
    IN  {outs[i] : i \in {j \in DOMAIN outs :
                             outs[j].displaysFor \notin Ids(Buttons(cfg))}}

\* C14: an Invoke of a button whose triggers contain an id that is not an
\* INPUT_TEXT of the description records no error for that id and, when it
\* calls the executor, sends the empty string for it in the bundle; and an
\* output whose displaysFor names no button of the description renders no
\* node.
C14_DanglingReferenceInert ==
    [][/\ lastOp'.op = "Invoke"
             => \A t \in DanglingTriggers(appConfig, lastOp'.id) :
                    /\ SameEntry(errors, errors', t)
                    /\ lastOp'.call # NoCall => lastOp'.inputs[t] = <<>>
       /\ Mounted
             => \A component \in DanglingOutputs(appConfig) :
                    RenderOutput(component) = NoNode]_vars

\* C15: in every reachable state, every key of outputValues, executionState
\* and errors is the id of a component present in the current description.
C15_KeysAreComponentIds ==
    Mounted =>
        (DOMAIN outputValues) \cup (DOMAIN executingState) \cup (DOMAIN errors)
            \subseteq Ids(Components(appConfig))

----------------------------------------------------------------------------
(* Properties: two buttons in flight *)

\* C16: the start, the success or the failure of an Invoke of button A leaves
\* executionState[B] and outputValues[B] of every other button B unchanged,
\* in every interleaving of the starts and settlements of the two.
C16_OtherButtonUntouched ==
    [][(lastOp'.op \in {"Invoke", "ExecutorSucceeds", "ExecutorFails"})
          => \A b \in ButtonIds \ {lastOp'.id} :
                 /\ SameEntry(executingState, executingState', b)
                 /\ SameEntry(outputValues, outputValues', b)]_vars

\* both buttons were in flight together and b1 has just failed while b2,
\* which holds an earlier result, is still awaited
C16_Witness ==
    /\ lastOp.op = "ExecutorFails"
    /\ lastOp.call.live
    /\ lastOp.id = "b1"
    /\ CallsOf("b2", TRUE) = 1
    /\ Loading(executingState, "b2")
    /\ "b2" \in DOMAIN outputValues
    /\ ~Loading(executingState, "b1")

----------------------------------------------------------------------------
(* Properties: recovery after a refused Invoke *)

\* C17: once an Invoke has recorded "This field is required." for a required
\* input without calling the executor, setting the input to a value that
\* passes its rules clears its error; the next Invoke calls the executor with
\* the bundle holding that value; and when that call succeeds with r,
\* outputValues of the button is r and the output bound to the button
\* renders r.
C17_RecoveryAfterRefusal ==
    [][/\ (/\ recovery = "refused"
           /\ lastOp'.op = "SetInputValue"
           /\ validateInput(lastOp'.arg[1],
                  ValidationOf(InputOf(appConfig, lastOp'.id))) = Null)
             => errors'[lastOp'.id] = Null
       /\ (recovery = "fixed" /\ lastOp'.op = "Invoke")
             => (/\ lastOp'.call # NoCall
                 /\ BagIn(lastOp'.call, pending')
                 /\ lastOp'.inputs =
                        [t \in {"topic_input"} |-> inputValues["topic_input"]])
       /\ (/\ recovery = "launched"
           /\ lastOp'.op = "ExecutorSucceeds"
           /\ lastOp'.call.live)
             => (/\ lastOp'.id \in DOMAIN outputValues'
                 /\ outputValues'[lastOp'.id] = lastOp'.arg[1]
                 /\ \A component \in
                        {c \in {Outputs(appConfig)[i] : i \in DOMAIN Outputs(appConfig)} :
                            c.displaysFor = lastOp'.id} :
                        RenderOutput(component)' =
                            ResultNode(component, lastOp'.arg[1]))]_vars

----------------------------------------------------------------------------
(* Properties: the chat and the sign-in gate *)

\* C18: a send never changes the application description unless its request
\* succeeds: the description is left as it was by the start of the send and
\* by the failure of generateOrRefineAppConfig; the failure records the
\* error message for display and sets isLoading to false.
C18_FailedSendKeepsDescription ==
    [][/\ lastOp'.op \in {"Send", "SendRefused", "GenerateFails"}
             => (appConfig' = appConfig /\ rendererState' = rendererState)
       /\ lastOp'.op = "GenerateFails"
             => (/\ error' = <<IF lastOp'.arg[1].isError
                                 THEN lastOp'.arg[1].message
                                 ELSE "An unknown error occurred.">>
                 /\ isLoading' = FALSE)]_vars

C18_Witness ==
    /\ lastOp.op = "GenerateFails"
    /\ appConfig = "A"
    /\ error = <<"The AI returned an invalid app configuration. Please try again.">>
    /\ ~isLoading
    /\ Len(messages) = 3
    /\ messages[3].role = "user"

\* the operations that only the builder's controls start
BuilderOps ==
    {"SetChatInput", "Send", "SendRefused", "StartOver", "SetActiveView",
     "SetInputValue", "Invoke", "Deploy", "CloseModal"}

\* C19: in every reachable state the builder (chat input, preview renderer,
\* deploy control) is shown only when the auth state is 'authenticated', and
\* then a session exists; while the auth state is 'loading' or
\* 'unauthenticated' neither the builder nor the renderer is shown and no
\* operation of the builder has just been performed; and right after a
\* sign-out the auth state is 'unauthenticated' and the login page is shown.
C19_BuilderBehindSignIn ==
    /\ BuilderShown
          => (authState = "authenticated" /\ currentUser # Null /\ user = currentUser)
    /\ authState \in {"loading", "unauthenticated"}
          => (/\ ~BuilderShown
              /\ ~Mounted
              /\ Screen \in {"Loader", "LoginPage"}
              /\ lastOp.op \notin BuilderOps)
    /\ lastOp.op = "SignOut"
          => (authState = "unauthenticated" /\ Screen = "LoginPage" /\ currentUser = Null)

\* signed out while a description was being generated, which has since
\* arrived: the login page is shown all the same
C19_Witness ==
    /\ authState = "unauthenticated"
    /\ Screen = "LoginPage"
    /\ appConfig = "A"
    /\ storedToken = NoToken
    /\ isInitialized

----------------------------------------------------------------------------
(* Properties: the executor *)

\* C20: execute called with an action kind other than text-generation or
\* image-generation rejects with an error that names the action, and makes
\* no downstream model call.
C20_UnknownActionRejected ==
    (xDone /\ xAction \notin {"GENERATE_TEXT", "GENERATE_IMAGE"})
        => (/\ xRun.outcome = "rejected"
            /\ xRun.value = <<"Unsupported action: ", xAction>>
            /\ xRun.downstream = <<>>)

C20_Witness ==
    /\ xDone
    /\ xAction = "GENERATE_VIDEO"
    /\ xInputs = [t \in {"in1"} |-> <<"a", "a">>]
    /\ xRun.outcome = "rejected"
    /\ xRun.downstream = <<>>

----------------------------------------------------------------------------
(* Properties: every execution ends *)

\* C22: provided every executor call settles, every button that becomes in
\* flight becomes not in flight again; no button is in flight without a call
\* of the mounted renderer being awaited for it; and the settlement of that
\* call ends the execution not in flight, with a stored result and no
\* lastError after a success and with a lastError after a failure.
C22_InFlightEnds ==
    /\ \A b \in ButtonIds :
           Loading(executingState, b) ~> ~Loading(executingState, b)
    /\ [](\A b \in ButtonIds :
              Loading(executingState, b) => CallsOf(b, TRUE) = 1)
    /\ [][(Settled(lastOp') /\ lastOp'.call.live)
             => (/\ ~Loading(executingState', lastOp'.id)
                 /\ IF lastOp'.op = "ExecutorSucceeds"
                      THEN /\ lastOp'.id \in DOMAIN outputValues'
                           /\ ErrorOf(executingState', lastOp'.id) = Null
                      ELSE ErrorOf(executingState', lastOp'.id) # Null)]_vars

C22_Witness ==
    /\ lastOp.op = "ExecutorSucceeds"
    /\ lastOp.call.live
    /\ lastOp.id = "b1"
    /\ "b1" \in DOMAIN executingState
    /\ ~Loading(executingState, "b1")
    /\ "b2" \in DOMAIN executingState
    /\ ~Loading(executingState, "b2")
    /\ ErrorOf(executingState, "b2") # Null
    /\ pending = EmptyBag

----------------------------------------------------------------------------
(* Properties: what an output shows *)

\* the outputs of the rendered description that are bound to a button of it
BoundOutputs ==
    LET outs == Outputs(appConfig)
    IN  {outs[i] : i \in {j \in DOMAIN outs :
                             outs[j].displaysFor \in Ids(Buttons(appConfig))}}

\* C23: the output panel of a button shows the loading indicator while the
\* button is in flight, else the lastError message when one is recorded
\* (also when a previous result is still stored), else the stored result
\* when there is one.
C23_OutputPriority ==
    Mounted =>
        \A component \in BoundOutputs :
            LET b == component.displaysFor
                inFlight == b \in DOMAIN executingState /\ executingState[b].loading
                lastError == IF b \in DOMAIN executingState
                               THEN executingState[b].error ELSE Null
            IN  /\ inFlight => RenderOutput(component) = <<"Loader">>
                /\ (~inFlight /\ lastError # Null)
                      => RenderOutput(component) = <<"Error", lastError[1]>>
                /\ (~inFlight /\ lastError = Null /\ b \in DOMAIN outputValues)
                      => RenderOutput(component) =
                             ResultNode(component, outputValues[b])

----------------------------------------------------------------------------
(* Properties: the recorded errors follow the values and the rules *)

\* C28: in every reachable state, for every INPUT_TEXT id of the current
\* description that has an entry in errors, the entry equals validate of
\* the input's current value (or "") under the rules the current
\* description gives that input.
C28_ErrorsFollowRules ==
    Mounted =>
        \A id \in Ids(textInputs(appConfig)) \cap DOMAIN errors :
            errors[id] =
                validateInput(IF id \in DOMAIN inputValues
                                THEN inputValues[id] ELSE <<>>,
                              ValidationOf(InputOf(appConfig, id)))

----------------------------------------------------------------------------
(* Deployment and source code generation *)

\* C21: a rejected deploy stores the caught message in deploymentError, ends
\* with isDeploying false and leaves the source code as it was, so the deploy
\* control is disabled after it only where there is no source code, and a
\* deploy can be started again from the main layout; every deploy that starts
\* clears deploymentError
C21_DeployRetryable ==
    /\ [][(lastOp'.op = "DeployFails")
             => (/\ deploymentError' = <<lastOp'.arg[1].message>>
                 /\ ~isDeploying'
                 /\ flutterCode' = flutterCode
                 /\ DeployDisabled' <=> (flutterCode' = Null))]_vars
    /\ [](lastOp.op = "DeployFails" /\ Screen = "Main" /\ flutterCode # Null
             => ENABLED handleDeploy)
    /\ [][(lastOp'.op = "Deploy")
             => (deploymentError' = Null /\ isDeploying')]_vars

\* a deploy has been rejected, its message is shown, and the deploy control
\* of the main layout is enabled again
C21_Witness ==
    /\ lastOp.op = "DeployFails"
    /\ deploymentError # Null
    /\ Screen = "Main"
    /\ ~DeployDisabled

\* the source code generations outstanding for a description
JobsFor(cfg) == CopiesIn([config |-> cfg], codeJobs)

\* C24: every new description starts one source code generation for that
\* description, which at its start clears the source code and the code error
\* and sets isGeneratingCode; and while the generation for the current
\* description is outstanding, no deploy can start with source code generated
\* for another description
C24_GenerationPerDescription ==
    /\ [][(lastOp'.op = "ReceiveConfig")
             => (/\ appConfig' = lastOp'.id
                 /\ codeJobs' = codeJobs (+) SetToBag({[config |-> appConfig']})
                 /\ flutterCode' = Null
                 /\ codeError' = Null
                 /\ isGeneratingCode')]_vars
    /\ [](JobsFor(appConfig) > 0 /\ ENABLED handleDeploy
             => flutterCode[1].config = appConfig)

\* C25: in every state of the main layout in which no source code generation
\* is outstanding, the stored source code is the one generated for the
\* current description
C25_LatestCodeWins ==
    (appConfig # NoConfig /\ codeJobs = EmptyBag /\ flutterCode # Null)
        => flutterCode[1].config = appConfig

----------------------------------------------------------------------------
(* The chat *)

\* C26: while the description is absent and the message list is empty, as
\* Start Over and the sign-out leave them, both stay so in every step that is
\* not the user sending a message: the settlement of a request that was
\* outstanding when Start Over ran changes neither
C26_StartOverDiscardsOutstanding ==
    [][(appConfig = NoConfig /\ messages = <<>> /\ lastOp'.op # "Send")
          => (appConfig' = NoConfig /\ messages' = <<>>)]_vars

\* C27: isLoading is true in every state in which a description generation
\* request is outstanding
C27_LoadingWhileOutstanding == requests # EmptyBag => isLoading

\* text that is empty or only whitespace
IsBlank(text) == \A i \in DOMAIN text : text[i] = " "

\* C30: a send from the send button or the Enter key while the chat box holds
\* an empty or whitespace-only text records the error "Please enter a
\* description for your app." and changes nothing else: the messages, the
\* outstanding requests, isLoading, the description, the chat box, the source
\* code and the deployment stay as they were
C30_BlankSendOnlyRecordsError ==
    [][(/\ lastOp'.op \in {"Send", "SendRefused"}
        /\ lastOp'.id \in {"submit", "enter"}
        /\ IsBlank(currentUserInput))
          => (/\ error' = <<EmptyPromptMessage>>
              /\ UNCHANGED <<messages, requests, isLoading, currentUserInput,
                             hostState, kvars, dvars, svars>>)]_vars

\* the send button was pressed with only whitespace typed, after an earlier
\* send had gone out: the error is recorded next to the chat as it was
C30_Witness ==
    /\ lastOp.op = "SendRefused"
    /\ lastOp.id = "submit"
    /\ currentUserInput = <<" ">>
    /\ error = <<EmptyPromptMessage>>
    /\ messages # <<>>

----------------------------------------------------------------------------
(* The subscription to authService *)

\* the step calls the subscriber's listener: the deferred initial callback
\* runs, or notifyListeners runs while the listener is in the set
ListenerCalled ==
    \/ lastOp'.op = "DeliverInitial"
    \/ lastOp'.op \in {"SignIn", "AuthSignOut"} /\ "app" \in listeners

\* C29: after the unsubscribe function has been called, and until the
\* subscriber subscribes again, no step calls the listener
C29_SilentAfterUnsubscribe ==
    [][authEffect = "unsubscribed" => ~ListenerCalled]_vars

====
